---- MODULE Spec2Model ----
(***************************************************************************)
(* Mayhem Monkey desktop shell.                                            *)
(*                                                                         *)
(* The Electron main process (electron/main.ts): one scanner window        *)
(* reference, one backend child-process handle, the two IPC handlers and   *)
(* the application lifecycle events.  The renderer components TestPanel    *)
(* and ResultsPanel are modelled as their view state plus handlers.        *)
(*                                                                         *)
(* Electron and Node are the environment: a window that was asked to close *)
(* is destroyed, and its 'closed' event delivered, in a later turn of the  *)
(* event loop (or at once); loadURL settles later; a child exits later.    *)
(***************************************************************************)
EXTENDS Naturals, Integers, Sequences, FiniteSets, TLC

\* ------------------------------------------------------------------ bounds
\* number of scanner BrowserWindow objects ever constructed in a run
MaxWindows == 2
\* number of main windows ever constructed in a run
MaxMainCreated == 2
\* number of child processes ever spawned in a run
MaxProcs == 2
\* number of clicks on the TestPanel in a run
MaxClicks == 3
\* size of the selection the TestPanel is first rendered with
MaxInitSel == 1
\* length of the vulnerability list handed to ResultsPanel
MaxVulns == 3

\* ---------------------------------------------------------------- values
\* the JavaScript null of `scannerWindow` and `backendProcess`
Null == 0

WindowIds == 1..MaxWindows
\* the channels of ipcMain.handle / ipcRenderer.invoke
Channels == {"open-scanner", "close-scanner"}
ProcIds == 1..MaxProcs

VARIABLES
  appState,        \* "starting" | "ready" | "quit" (will-quit delivered)
  platform,        \* process.platform: "darwin" | "other"
  mainWindows,     \* number of open main windows
  mainCreated,     \* number of createWindow() calls made
  ipcHandlers,     \* per channel: number of ipcMain.handle registrations
  scannerWindow,   \* let scannerWindow: BrowserWindow | null
  winState,        \* per scanner window: "none" | "open" | "closing" | "destroyed"
  load,            \* per scanner window, its loadURL promise: "none" | "pending" | "resolved" | "rejected"
  shown,           \* scanner windows on which show() succeeded
  focusCalled,     \* scanner windows on which focus() was called
  closeCalls,      \* per scanner window: number of close() calls made by the main process
  backendProcess,  \* let backendProcess: ChildProcess | null
  procState,       \* per child: "none" | "running" | "termed" | "exited"
  sigterms,        \* per child: number of kill('SIGTERM') calls
  selectedTests,   \* TestPanel prop selectedTests: string[]
  isScanning,      \* TestPanel prop isScanning
  startScanCalls,  \* number of onStartScan invocations
  clicks,          \* number of clicks made on the TestPanel
  trail,           \* the last (at most two) consecutive toggleTest calls: [id, before]
  vulnerabilities, \* ResultsPanel prop vulnerabilities: Vulnerability[]
  expandedIds      \* ResultsPanel state expandedIds: Set<string>

mainVars == <<appState, platform, mainWindows, mainCreated, mainCreated, ipcHandlers, scannerWindow, winState, load,
              shown, focusCalled, closeCalls, backendProcess, procState, sigterms>>
panelVars == <<selectedTests, isScanning, startScanCalls, clicks, trail>>
resultVars == <<vulnerabilities, expandedIds>>
vars == <<mainVars, panelVars, resultVars>>

windowVars == <<scannerWindow, winState, load, shown, focusCalled, closeCalls>>
backendVars == <<backendProcess, procState, sigterms>>

\* ------------------------------------------------- electron/main.ts helpers
\* BrowserWindow.isDestroyed()
isDestroyed(w) == winState[w] = "destroyed"

\* scanner BrowserWindow objects that exist and are not destroyed
LiveScannerWindows == {w \in WindowIds : winState[w] \in {"open", "closing"}}

\* BrowserWindow.getAllWindows().length
AllWindowsCount == mainWindows + Cardinality(LiveScannerWindows)

\* the id the next `new BrowserWindow` gets
NextWindow == Cardinality({w \in WindowIds : winState[w] # "none"}) + 1

\* the id the next spawned child gets
NextProc == Cardinality({p \in ProcIds : procState[p] # "none"}) + 1

\* children that were spawned and have neither exited nor been sent SIGTERM
RunningChildren == {p \in ProcIds : procState[p] = "running"}

\* ------------------------------------------------------------ the backend
\* startBackend without its null check
startBackend_NoGuard ==
  /\ NextProc <= MaxProcs
  /\ backendProcess' = NextProc
  /\ procState' = [procState EXCEPT ![NextProc] = "running"]
  /\ UNCHANGED sigterms

\* const startBackend = () => { if (backendProcess) return; backendProcess = spawn(...) ... }
startBackend ==
  IF backendProcess # Null
    THEN UNCHANGED backendVars
    ELSE /\ NextProc <= MaxProcs
         /\ backendProcess' = NextProc
         /\ procState' = [procState EXCEPT ![NextProc] = "running"]
         /\ UNCHANGED sigterms

\* stopBackend that signals the child but keeps the handle
stopBackend_KeepsHandle ==
  IF backendProcess = Null
    THEN UNCHANGED backendVars
    ELSE /\ sigterms' = [sigterms EXCEPT ![backendProcess] = @ + 1]
         /\ procState' = [procState EXCEPT ![backendProcess] =
                            IF @ = "running" THEN "termed" ELSE @]
         /\ UNCHANGED backendProcess

\* const stopBackend = () => { if (!backendProcess) return; kill('SIGTERM'); backendProcess = null }
stopBackend ==
  IF backendProcess = Null
    THEN UNCHANGED backendVars
    ELSE /\ sigterms' = [sigterms EXCEPT ![backendProcess] = @ + 1]
         /\ procState' = [procState EXCEPT ![backendProcess] =
                            IF @ = "running" THEN "termed" ELSE @]
         /\ backendProcess' = Null

\* an exit handler that restarts the backend
onBackendExit_Restarts(p) ==
  /\ NextProc <= MaxProcs
  /\ backendProcess' = NextProc
  /\ procState' = [procState EXCEPT ![p] = "exited", ![NextProc] = "running"]
  /\ UNCHANGED sigterms

\* backendProcess.on('exit', (code) => { backendProcess = null })
onBackendExit(p) ==
  /\ backendProcess' = Null
  /\ procState' = [procState EXCEPT ![p] = "exited"]
  /\ UNCHANGED sigterms

\* ------------------------------------------------------ the scanner window
\* the guard of both handlers: scannerWindow && !scannerWindow.isDestroyed()
ScannerPresent == scannerWindow # Null /\ ~isDestroyed(scannerWindow)

\* const createScannerWindow = () => { ... }: focus the present window, or
\* construct a hidden one, start its load and subscribe to 'closed'
createScannerWindow ==
  IF ScannerPresent
    THEN /\ focusCalled' = focusCalled \cup {scannerWindow}
         /\ UNCHANGED <<scannerWindow, winState, load, shown, closeCalls>>
    ELSE /\ NextWindow <= MaxWindows
         /\ scannerWindow' = NextWindow
         /\ winState' = [winState EXCEPT ![NextWindow] = "open"]
         /\ load' = [load EXCEPT ![NextWindow] = "pending"]
         /\ UNCHANGED <<shown, focusCalled, closeCalls>>

\* closeScannerWindow that closes the window but keeps the reference
closeScannerWindow_KeepsRef(sync) ==
  IF ScannerPresent
    THEN /\ closeCalls' = [closeCalls EXCEPT ![scannerWindow] = @ + 1]
         /\ winState' = [winState EXCEPT ![scannerWindow] =
                           IF sync THEN "destroyed" ELSE "closing"]
         /\ UNCHANGED <<scannerWindow, load, shown, focusCalled>>
    ELSE UNCHANGED windowVars

\* const closeScannerWindow = () => { if (present) { close(); scannerWindow = null } }
\* sync: close() destroys the window (and delivers 'closed') before it returns
closeScannerWindow(sync) ==
  IF ScannerPresent
    THEN /\ closeCalls' = [closeCalls EXCEPT ![scannerWindow] = @ + 1]
         /\ winState' = [winState EXCEPT ![scannerWindow] =
                           IF sync THEN "destroyed" ELSE "closing"]
         /\ scannerWindow' = Null
         /\ UNCHANGED <<load, shown, focusCalled>>
    ELSE UNCHANGED windowVars

\* a renderer exists that can invoke an IPC channel
RendererAlive == mainWindows > 0 \/ LiveScannerWindows # {}

\* ------------------------------------------------------------------ Init
InitMain ==
  /\ appState = "starting"
  /\ platform \in {"darwin", "other"}
  /\ mainWindows = 0
  /\ mainCreated = 0
  /\ ipcHandlers = [c \in Channels |-> 0]
  /\ scannerWindow = Null
  /\ winState = [w \in WindowIds |-> "none"]
  /\ load = [w \in WindowIds |-> "none"]
  /\ shown = {}
  /\ focusCalled = {}
  /\ closeCalls = [w \in WindowIds |-> 0]
  /\ backendProcess = Null
  /\ procState = [p \in ProcIds |-> "none"]
  /\ sigterms = [p \in ProcIds |-> 0]

InitPanelIdle ==
  /\ selectedTests = <<>>
  /\ isScanning = FALSE
  /\ startScanCalls = 0
  /\ clicks = 0
  /\ trail = <<>>

InitResultsIdle ==
  /\ vulnerabilities = <<>>
  /\ expandedIds = {}

Init == InitMain /\ InitPanelIdle /\ InitResultsIdle

\* --------------------------------------------------- main-process actions
\* const createWindow = () => { new BrowserWindow(...); loadURL / loadFile }
createWindow ==
  /\ mainCreated < MaxMainCreated
  /\ mainWindows' = mainWindows + 1
  /\ mainCreated' = mainCreated + 1

\* ipcMain.handle('open-scanner', ...); ipcMain.handle('close-scanner', ...)
registerHandlers == ipcHandlers' = [c \in Channels |-> ipcHandlers[c] + 1]

\* app.whenReady().then(() => { startBackend(); createWindow(); ipcMain.handle(...) ... })
AppReady ==
  /\ appState = "starting"
  /\ appState' = "ready"
  /\ startBackend
  /\ createWindow
  /\ registerHandlers
  /\ UNCHANGED <<platform, windowVars, panelVars, resultVars>>

\* ipcMain.handle('open-scanner', () => { createScannerWindow() })
OpenScanner ==
  /\ appState = "ready"
  /\ ipcHandlers["open-scanner"] > 0
  /\ RendererAlive
  /\ createScannerWindow
  /\ UNCHANGED <<appState, ipcHandlers, platform, mainWindows, mainCreated, backendVars, panelVars, resultVars>>

\* a close-scanner handler that also stops the backend
CloseScanner_StopsBackend ==
  /\ appState = "ready"
  /\ ipcHandlers["close-scanner"] > 0
  /\ RendererAlive
  /\ \E sync \in BOOLEAN : closeScannerWindow(sync)
  /\ stopBackend
  /\ UNCHANGED <<appState, ipcHandlers, platform, mainWindows, mainCreated, panelVars, resultVars>>

\* ipcMain.handle('close-scanner', () => { closeScannerWindow() })
CloseScanner ==
  /\ appState = "ready"
  /\ ipcHandlers["close-scanner"] > 0
  /\ RendererAlive
  /\ \E sync \in BOOLEAN : closeScannerWindow(sync)
  /\ UNCHANGED <<appState, ipcHandlers, platform, mainWindows, mainCreated, backendVars, panelVars, resultVars>>

\* the user clicks the close button of a scanner window
UserCloseScanner(w) ==
  /\ appState = "ready"
  /\ winState[w] = "open"
  /\ winState' = [winState EXCEPT ![w] = "closing"]
  /\ UNCHANGED <<appState, ipcHandlers, platform, mainWindows, mainCreated, scannerWindow, load, shown,
                 focusCalled, closeCalls, backendVars, panelVars, resultVars>>

\* the window is destroyed: scannerWindow.on('closed', () => { scannerWindow = null })
WindowClosed(w) ==
  /\ appState = "ready"
  /\ winState[w] = "closing"
  /\ winState' = [winState EXCEPT ![w] = "destroyed"]
  /\ scannerWindow' = Null
  /\ UNCHANGED <<appState, ipcHandlers, platform, mainWindows, mainCreated, load, shown, focusCalled,
                 closeCalls, backendVars, panelVars, resultVars>>

\* loadURL(scannerUrl).then(() => { scannerWindow?.show() ... }); a show() on a
\* destroyed window throws into the .catch
LoadResolved(w) ==
  /\ appState = "ready"
  /\ load[w] = "pending"
  /\ winState[w] \in {"open", "closing"}
  /\ load' = [load EXCEPT ![w] = "resolved"]
  /\ shown' = IF ScannerPresent
                THEN shown \cup {scannerWindow}
                ELSE shown
  /\ UNCHANGED <<appState, ipcHandlers, platform, mainWindows, mainCreated, scannerWindow, winState,
                 focusCalled, closeCalls, backendVars, panelVars, resultVars>>

\* loadURL(scannerUrl) ... .catch((err) => { console.error(...) })
LoadRejected(w) ==
  /\ appState = "ready"
  /\ load[w] = "pending"
  /\ load' = [load EXCEPT ![w] = "rejected"]
  /\ UNCHANGED <<appState, ipcHandlers, platform, mainWindows, mainCreated, scannerWindow, winState, shown,
                 focusCalled, closeCalls, backendVars, panelVars, resultVars>>

\* the user closes the main window
UserCloseMain ==
  /\ appState = "ready"
  /\ mainWindows > 0
  /\ mainWindows' = mainWindows - 1
  /\ UNCHANGED <<appState, ipcHandlers, platform, mainCreated, windowVars, backendVars, panelVars, resultVars>>

\* an activate handler that registers the IPC handlers again with the window
Activate_Registers ==
  /\ appState = "ready"
  /\ platform = "darwin"
  /\ IF AllWindowsCount = 0
       THEN createWindow /\ registerHandlers
       ELSE UNCHANGED <<mainWindows, mainCreated, ipcHandlers>>
  /\ UNCHANGED <<appState, platform, windowVars, backendVars, panelVars, resultVars>>

\* app.on('activate', () => { if (BrowserWindow.getAllWindows().length === 0) createWindow() })
Activate ==
  /\ appState = "ready"
  /\ platform = "darwin"
  /\ IF AllWindowsCount = 0
       THEN createWindow
       ELSE UNCHANGED <<mainWindows, mainCreated>>
  /\ UNCHANGED <<appState, ipcHandlers, platform, windowVars, backendVars, panelVars, resultVars>>

\* app.on('will-quit', () => { stopBackend() }); Electron emits will-quit when
\* all windows have been closed and the application is about to quit
\* (app.quit() from 'window-all-closed', or the user's Quit on darwin)
WillQuit ==
  /\ appState = "ready"
  /\ AllWindowsCount = 0
  /\ appState' = "quit"
  /\ stopBackend
  /\ UNCHANGED <<ipcHandlers, platform, mainWindows, mainCreated, windowVars, panelVars, resultVars>>

\* the child process exits; its 'exit' listener runs
ChildExit(p) ==
  /\ procState[p] \in {"running", "termed"}
  /\ onBackendExit(p)
  /\ UNCHANGED <<appState, ipcHandlers, platform, mainWindows, mainCreated, windowVars, panelVars, resultVars>>

Next ==
  \/ AppReady
  \/ OpenScanner
  \/ CloseScanner
  \/ \E w \in WindowIds : UserCloseScanner(w)
  \/ \E w \in WindowIds : WindowClosed(w)
  \/ \E w \in WindowIds : LoadResolved(w)
  \/ \E w \in WindowIds : LoadRejected(w)
  \/ UserCloseMain
  \/ Activate
  \/ WillQuit
  \/ \E p \in ProcIds : ChildExit(p)

Spec == Init /\ [][Next]_vars

\* ------------------------------------------- startBackend at any call site
\* startBackend() called again while the application runs: the contract of
\* the function, not of its one call in whenReady
StartBackendAgain ==
  /\ appState = "ready"
  /\ startBackend
  /\ UNCHANGED <<appState, ipcHandlers, platform, mainWindows, mainCreated, windowVars, panelVars, resultVars>>

NextBackend == Next \/ StartBackendAgain

SpecBackend == Init /\ [][NextBackend]_vars

\* ------------------------------------------------ components/TestPanel.tsx
\* const testCategories = [ { id, name, description }, ... ]
testCategories == <<
  [id |-> "sql-injection",      name |-> "SQL Injection"],
  [id |-> "xss",                name |-> "Cross-Site Scripting"],
  [id |-> "csrf",               name |-> "CSRF Protection"],
  [id |-> "authentication",     name |-> "Authentication"],
  [id |-> "authorization",      name |-> "Authorization"],
  [id |-> "encryption",         name |-> "Encryption"],
  [id |-> "input-validation",   name |-> "Input Validation"],
  [id |-> "file-upload",        name |-> "File Upload"],
  [id |-> "session-management", name |-> "Session Management"],
  [id |-> "api-security",       name |-> "API Security"] >>

\* testCategories.map(t => t.id)
CategoryIds == [i \in DOMAIN testCategories |-> testCategories[i].id]

\* the ids of the checkboxes TestPanel renders
RenderedIds == {testCategories[i].id : i \in DOMAIN testCategories}

\* the display name of a category id: testCategories[..].name
nameOf(id) == testCategories[CHOOSE i \in DOMAIN testCategories : testCategories[i].id = id].name

\* Array.prototype.includes
includes(arr, x) == \E i \in DOMAIN arr : arr[i] = x

\* the members of an array, as a set
Members(arr) == {arr[i] : i \in DOMAIN arr}

\* toggleTest that never removes an id
toggleTest_AlwaysAppends(sel, testId) == Append(sel, testId)

\* toggleTest that appends the category's name instead of its id
toggleTest_AppendsName(sel, testId) ==
  IF includes(sel, testId)
    THEN SelectSeq(sel, LAMBDA id : id # testId)
    ELSE Append(sel, nameOf(testId))

\* const toggleTest = (testId) => { includes ? filter(id => id !== testId) : [...selectedTests, testId] }
toggleTest(sel, testId) ==
  IF includes(sel, testId)
    THEN SelectSeq(sel, LAMBDA id : id # testId)
    ELSE Append(sel, testId)

\* selectAll that adds every category to the present selection
selectAll_Appends(sel) == sel \o CategoryIds

\* const selectAll = () => { onTestsChange(testCategories.map(t => t.id)) }
selectAll(sel) == CategoryIds

\* const deselectAll = () => { onTestsChange([]) }
deselectAll(sel) == <<>>

\* a start button that is disabled only while scanning
StartDisabled_OnlyScanning == isScanning

\* disabled={isScanning || selectedTests.length === 0}
StartDisabled == isScanning \/ Len(selectedTests) = 0

\* the rendered checkboxes with checked={selectedTests.includes(test.id)} true
checkedCheckboxes == {id \in RenderedIds : includes(selectedTests, id)}

\* {selectedTests.length} of {testCategories.length} tests selected
displayedCount == Len(selectedTests)

\* the selections TestPanel is first rendered with: some categories, in list order
InitialSelections ==
  {SelectSeq(CategoryIds, LAMBDA id : id \in S) :
     S \in {T \in SUBSET RenderedIds : Cardinality(T) <= MaxInitSel}}

InitPanel ==
  /\ selectedTests \in InitialSelections
  /\ isScanning = FALSE
  /\ startScanCalls = 0
  /\ clicks = 0
  /\ trail = <<>>

\* onChange={() => toggleTest(test.id)} of a rendered checkbox
ToggleTest(t) ==
  /\ clicks < MaxClicks
  /\ selectedTests' = toggleTest(selectedTests, t)
  /\ trail' = (IF trail = <<>> THEN <<>> ELSE <<trail[Len(trail)]>>)
                \o <<[id |-> t, before |-> selectedTests]>>
  /\ clicks' = clicks + 1
  /\ UNCHANGED <<isScanning, startScanCalls, mainVars, resultVars>>

\* onClick={selectAll}
SelectAll ==
  /\ clicks < MaxClicks
  /\ selectedTests' = selectAll(selectedTests)
  /\ trail' = <<>>
  /\ clicks' = clicks + 1
  /\ UNCHANGED <<isScanning, startScanCalls, mainVars, resultVars>>

\* onClick={deselectAll}
DeselectAll ==
  /\ clicks < MaxClicks
  /\ selectedTests' = deselectAll(selectedTests)
  /\ trail' = <<>>
  /\ clicks' = clicks + 1
  /\ UNCHANGED <<isScanning, startScanCalls, mainVars, resultVars>>

\* onClick={onStartScan} of the start button; a disabled button takes no click
ClickStart ==
  /\ clicks < MaxClicks
  /\ ~StartDisabled
  /\ startScanCalls' = startScanCalls + 1
  /\ trail' = <<>>
  /\ clicks' = clicks + 1
  /\ UNCHANGED <<selectedTests, isScanning, mainVars, resultVars>>

\* the parent re-renders TestPanel with another isScanning
SetIsScanning(b) ==
  /\ isScanning # b
  /\ isScanning' = b
  /\ UNCHANGED <<selectedTests, startScanCalls, clicks, trail, mainVars, resultVars>>

NextPanel ==
  \/ \E t \in RenderedIds : ToggleTest(t)
  \/ SelectAll
  \/ DeselectAll
  \/ ClickStart
  \/ \E b \in BOOLEAN : SetIsScanning(b)

\* the TestPanel alone: the main process has not started
InitTestPanel == InitMain /\ platform = "other" /\ InitPanel /\ InitResultsIdle

SpecPanel == InitTestPanel /\ [][NextPanel]_vars

\* --------------------------------------------- components/ResultsPanel.tsx
\* type Severity: the keys of severityConfig
Severities == {"critical", "high", "medium", "low"}

\* a severity string outside the Severity type, as untyped JSON may carry
OtherSeverity == "info"

\* the identifiers the vulnerability records are drawn from
VulnIds == {"v1", "v2", "v3"}

\* the Vulnerability records: the fields ResultsPanel branches on
VulnRecords == [id : VulnIds, severity : Severities \cup {OtherSeverity}]

\* the vulnerability lists handed to ResultsPanel
VulnLists == UNION {[1..n -> VulnRecords] : n \in 0..MaxVulns}

\* toggleExpand that collapses every other result
toggleExpand_Accordion(ids, id) ==
  IF id \in ids THEN {} ELSE {id}

\* const toggleExpand = (id) => { new Set(expandedIds); has ? delete : add; setExpandedIds }
toggleExpand(ids, id) ==
  IF id \in ids THEN ids \ {id} ELSE ids \cup {id}

\* const isExpanded = expandedIds.has(vuln.id), for the result at position i
isExpanded(ids, i) == vulnerabilities[i].id \in ids

\* the list's identifiers are pairwise distinct (React's key={vuln.id})
DistinctIds ==
  \A i, j \in DOMAIN vulnerabilities :
    vulnerabilities[i].id = vulnerabilities[j].id => i = j

\* vulnerabilities.filter(v => v.severity === sev).length: the number in a tile
severityCount(sev) ==
  Cardinality({i \in DOMAIN vulnerabilities : vulnerabilities[i].severity = sev})

\* const criticalCount / highCount / mediumCount / lowCount
criticalCount == severityCount("critical")
highCount == severityCount("high")
mediumCount == severityCount("medium")
lowCount == severityCount("low")

\* severityConfig[vuln.severity] ?? severityConfig.medium: the badge of the
\* result at position i, named by the severity whose label it shows
badgeOf(i) ==
  IF vulnerabilities[i].severity \in Severities
    THEN vulnerabilities[i].severity
    ELSE "medium"

\* the number of results rendered with the badge of sev
badgeCount(sev) == Cardinality({i \in DOMAIN vulnerabilities : badgeOf(i) = sev})

InitResults ==
  /\ vulnerabilities \in VulnLists
  /\ expandedIds = {}

\* onClick={() => toggleExpand(vuln.id)} of the result at position i
ClickResult(i) ==
  /\ expandedIds' = toggleExpand(expandedIds, vulnerabilities[i].id)
  /\ UNCHANGED <<vulnerabilities, mainVars, panelVars>>

NextResults == \E i \in DOMAIN vulnerabilities : ClickResult(i)

\* the ResultsPanel alone: the main process has not started
InitResultsPanel == InitMain /\ platform = "other" /\ InitPanelIdle /\ InitResults

SpecResults == InitResultsPanel /\ [][NextResults]_vars

\* ================================================================ claims
\* ---- C1: at most one non-destroyed scanner window exists, whatever the
\* sequence of open-scanner, close-scanner, user closes and 'closed' events.
\* Violated: close-scanner forgets a window that is still closing, and the
\* next open-scanner constructs a second one beside it.
C1_SingletonScannerWindow == Cardinality(LiveScannerWindows) <= 1

\* ---- C2: close-scanner with a present window calls close() on it once and
\* nulls the reference, so that a second call finds nothing present; with no
\* present window it changes nothing.
C2_CloseScannerEffect ==
  [][CloseScanner =>
       IF ScannerPresent
         THEN /\ closeCalls' = [closeCalls EXCEPT ![scannerWindow] = @ + 1]
              /\ scannerWindow' = Null
              /\ ~ScannerPresent'
              /\ UNCHANGED <<load, shown, focusCalled, mainWindows, backendVars>>
         ELSE UNCHANGED vars]_vars

\* close-scanner has closed the window the reference pointed to
C2_Witness ==
  \E w \in WindowIds :
    closeCalls[w] = 1 /\ winState[w] = "closing" /\ scannerWindow = Null

\* ---- C3: a child is spawned only while the handle is null: at most one
\* spawned child has neither exited nor been sent SIGTERM, and startBackend
\* with a non-null handle leaves handle and children as they are.
C3_SpawnIfAbsent ==
  /\ [](Cardinality(RunningChildren) <= 1)
  /\ [][StartBackendAgain /\ backendProcess # Null => UNCHANGED backendVars]_vars
  /\ [][\A p \in ProcIds : procState[p] = "none" /\ procState'[p] # "none"
            => backendProcess = Null /\ backendProcess' = p]_vars

\* a second child was spawned once the first had exited, and it alone runs
C3_Witness ==
  /\ procState[1] = "exited"
  /\ procState[2] = "running"
  /\ backendProcess = 2

\* ---- C4: will-quit with a non-null handle sends that child SIGTERM once
\* and nulls the handle; with a null handle it sends no signal.  No child is
\* ever signalled twice.
C4_KillOnShutdown ==
  /\ [](\A p \in ProcIds : sigterms[p] <= 1)
  /\ [][appState = "ready" /\ appState' = "quit" =>
          IF backendProcess # Null
            THEN /\ sigterms' = [sigterms EXCEPT ![backendProcess] = @ + 1]
                 /\ procState'[backendProcess] = "termed"
                 /\ backendProcess' = Null
            ELSE UNCHANGED backendVars]_vars

\* the application quit while its child ran: the child got one SIGTERM
C4_Witness ==
  /\ appState = "quit"
  /\ backendProcess = Null
  /\ \E p \in ProcIds : sigterms[p] = 1 /\ procState[p] = "termed"

\* ---- C5: the child's exit only nulls the handle; nothing else of the main
\* process changes and no second child is ever spawned in a run.
C5_NoRestart ==
  /\ [](Cardinality({p \in ProcIds : procState[p] # "none"}) <= 1)
  /\ [][\A p \in ProcIds :
          procState[p] # "exited" /\ procState'[p] = "exited" =>
            /\ backendProcess' = Null
            /\ \A q \in ProcIds \ {p} : procState'[q] = procState[q]
            /\ UNCHANGED <<appState, ipcHandlers, platform, mainWindows, mainCreated, windowVars, sigterms>>]_vars

\* the child exited while the application keeps running with a null handle
C5_Witness ==
  /\ appState = "ready"
  /\ procState[1] = "exited"
  /\ sigterms[1] = 0
  /\ backendProcess = Null

\* ---- C6: toggling the same category twice in a row yields a selection
\* with the same members as before the first toggle.
C6_ToggleTwiceRestores ==
  (Len(trail) = 2 /\ trail[1].id = trail[2].id)
    => Members(selectedTests) = Members(trail[1].before)

\* a category of a two-element selection was toggled off and on again: the
\* members are back, in another order
C6_Witness ==
  /\ Len(trail) = 2
  /\ trail[1].id = trail[2].id
  /\ Len(trail[1].before) = 2
  /\ includes(trail[1].before, trail[1].id)
  /\ selectedTests # trail[1].before

\* ---- C7: selectAll sets the selection to exactly the ten category ids,
\* each once, whatever the selection was.
C7_SelectAllFull ==
  [][SelectAll =>
       /\ Len(selectedTests') = 10
       /\ Members(selectedTests') = RenderedIds
       /\ Cardinality(Members(selectedTests')) = 10]_vars

\* selectAll was clicked on a selection that held fewer categories
C7_Witness ==
  /\ clicks > 0
  /\ trail = <<>>
  /\ selectedTests = CategoryIds

\* ---- C8: while the selection is empty the start button is disabled and no
\* step invokes onStartScan.
C8_StartDisabledWhenEmpty ==
  /\ [](Len(selectedTests) = 0 => StartDisabled)
  /\ [][Len(selectedTests) = 0 => startScanCalls' = startScanCalls]_vars

\* a scan was started earlier, then the selection was emptied: outside a scan
\* the button is disabled by the empty selection alone
C8_Witness ==
  /\ startScanCalls > 0
  /\ selectedTests = <<>>
  /\ ~isScanning
  /\ StartDisabled

\* ---- C9: every selected id is one of the ten category ids.
C9_SelectionSubset == Members(selectedTests) \subseteq RenderedIds

\* toggles have added categories to the selection
C9_Witness ==
  /\ trail # <<>>
  /\ Len(selectedTests) >= 3

\* ---- C10 (as stated): for every vulnerability list, a click on a displayed
\* result flips the expanded state of that result and leaves every other
\* displayed result's expanded state unchanged.  Violated by a list in which
\* two records share an id: both open and close together.
C10_AnyList ==
  [][\A i \in DOMAIN vulnerabilities :
       ClickResult(i) =>
         /\ isExpanded(expandedIds', i) # isExpanded(expandedIds, i)
         /\ \A j \in DOMAIN vulnerabilities \ {i} :
              isExpanded(expandedIds', j) = isExpanded(expandedIds, j)]_vars

\* ---- C10 (amended): for every vulnerability list whose ids are pairwise
\* distinct, a click on a displayed result flips the expanded state of that
\* result and leaves every other displayed result's expanded state unchanged;
\* in any list the clicked result itself is flipped.
C10_ToggleOnlyThatResult ==
  [][\A i \in DOMAIN vulnerabilities :
       ClickResult(i) =>
         /\ isExpanded(expandedIds', i) # isExpanded(expandedIds, i)
         /\ DistinctIds =>
              \A j \in DOMAIN vulnerabilities \ {i} :
                isExpanded(expandedIds', j) = isExpanded(expandedIds, j)]_vars

\* in a list of three distinct ids one result is expanded and then another,
\* the third still collapsed
C10_Witness ==
  /\ DistinctIds
  /\ Len(vulnerabilities) = 3
  /\ Cardinality(expandedIds) = 2

\* ---- C11: for every vulnerability list the four severity counts sum to the
\* length of the list.  Violated by a list holding a record whose severity is
\* none of the four values: no tile counts it.
C11_CountsSumToTotal ==
  criticalCount + highCount + mediumCount + lowCount = Len(vulnerabilities)

\* ---- C16: for every vulnerability list and each of the four severities, the
\* number of results rendered with that severity's badge equals the number in
\* that severity's tile.  Violated by a record whose severity is none of the
\* four values: it is rendered with the Medium badge and counted by no tile.
C16_BadgesAgreeWithTiles ==
  /\ badgeCount("critical") = criticalCount
  /\ badgeCount("high") = highCount
  /\ badgeCount("medium") = mediumCount
  /\ badgeCount("low") = lowCount

\* ---- C12: the two IPC calls act on the scanner window only: a step in which
\* open-scanner or close-scanner acts (a window constructed, focused or
\* closed by the main process) changes neither the backend handle nor any
\* child nor the signals sent; and a step that changes the backend (start,
\* stop, the child's exit) leaves the scanner window reference as it is.
C12_IpcActsOnlyOnWindow ==
  /\ [][(\/ closeCalls' # closeCalls
         \/ focusCalled' # focusCalled
         \/ \E w \in WindowIds : winState[w] = "none" /\ winState'[w] # "none")
          => UNCHANGED backendVars]_vars
  /\ [][backendVars' # backendVars => scannerWindow' = scannerWindow]_vars

\* open-scanner, close-scanner and open-scanner twice have acted while the
\* child ran, and the child's exit left the reference to the second window
C12_Witness ==
  /\ scannerWindow = 2
  /\ closeCalls[1] = 1
  /\ 2 \in focusCalled
  /\ procState[1] = "exited"
  /\ sigterms[1] = 0

\* ---- C13: once a scanner window's loadURL has rejected, that window is not
\* shown, its load is not attempted again, and while it stays open the
\* reference keeps pointing at it (so open-scanner only focuses it and
\* constructs no window).  Violated through the faults of C14 and C15: another
\* window's 'closed' event nulls the reference, and another window's load
\* completion shows the window.
C13_RejectedLoadStaysHidden ==
  [][\A w \in WindowIds :
       /\ load'[w] = "rejected" => w \notin shown'
       /\ load[w] = "rejected" =>
            /\ load'[w] = "rejected"
            /\ (scannerWindow = w /\ winState[w] = "open" /\ winState'[w] = "open")
                 => scannerWindow' = w]_vars

\* ---- C14: the 'closed' event of an older window leaves a reference to a
\* newer window in place.  Violated: the handler nulls scannerWindow without
\* looking at which window closed.
C14_StaleClosedKeepsNewerRef ==
  [][\A w \in WindowIds :
       (/\ winState[w] = "closing"
        /\ winState'[w] = "destroyed"
        /\ scannerWindow # Null
        /\ scannerWindow # w)
         => scannerWindow' = scannerWindow]_vars

\* ---- C15: show() is called only on a scanner window whose own loadURL has
\* resolved.  Violated: the .then of one window's load shows whichever window
\* the reference names at that moment.
C15_ShownOnlyAfterOwnLoad == \A w \in shown : load[w] = "resolved"

\* ---- C17: the selection holds no id twice; the displayed count is at most
\* 10 and equals the number of checked checkboxes.
C17_NoDuplicates ==
  /\ \A i, j \in DOMAIN selectedTests : selectedTests[i] = selectedTests[j] => i = j
  /\ displayedCount <= 10
  /\ displayedCount = Cardinality(checkedCheckboxes)

\* every category was selected, then one was toggled off and on again: ten
\* ids, each once, in another order than the list's
C17_Witness ==
  /\ Len(trail) = 2
  /\ displayedCount = 10
  /\ selectedTests # CategoryIds

\* ---- C18: each IPC channel gets its handler once per run, in the step that
\* constructs the first main window: whenever a renderer exists both handlers
\* are registered, and no later step (an 'activate' that constructs the main
\* window again included) registers one a second time.
C18_HandlersRegisteredOnce ==
  /\ [](\A c \in Channels : ipcHandlers[c] <= 1)
  /\ []((RendererAlive \/ mainCreated > 0) => \A c \in Channels : ipcHandlers[c] = 1)
  /\ [][ipcHandlers' # ipcHandlers =>
          /\ appState = "starting"
          /\ mainCreated = 0 /\ mainCreated' = 1
          /\ \A c \in Channels : ipcHandlers[c] = 0 /\ ipcHandlers'[c] = 1]_vars

\* 'activate' has constructed the main window a second time and an IPC call
\* was served: each channel still has its one handler
C18_Witness ==
  /\ mainCreated = 2
  /\ mainWindows = 1
  /\ focusCalled # {}
  /\ \A c \in Channels : ipcHandlers[c] = 1

====
